---- MODULE Spec2Model ----
(***************************************************************************)
(* Model of the request instrumentation pipeline of examples/go-api:       *)
(* the middleware chain OTel -> Recovery -> (Traced)Logging -> Metrics ->  *)
(* handler (pkg/middleware), the correlation context and leveled logger   *)
(* (pkg/logger) and the span accessors (pkg/tracing).                      *)
(***************************************************************************)
EXTENDS Integers, Sequences, FiniteSets, TLC

\* ------------------------------------------------------------------ bounds
\* Number of requests served concurrently.
NumRequests == 2
\* Longest sequence of WriteHeader / Write calls a handler makes.
MaxHandlerOps == 2

Requests == 1..NumRequests
\* The requests that draw their inputs from the full input sets; the others
\* are background load (no inbound headers, a handler that writes nothing).
RichRequests == {1}

\* ------------------------------------------------------------ identifiers
\* An identifier string: kind says where it was made, n tells two strings of
\* one kind apart, len is its length in characters.
Empty == [kind |-> "empty", n |-> 0, len |-> 0]
\* Marks a response header that was never Set (distinct from one set to "").
Unset == [kind |-> "unset", n |-> 0, len |-> 0]
Hdr(n, l) == [kind |-> "hdr", n |-> n, len |-> l]
\* "req-42"
Req42 == Hdr(42, 6)
\* A syntactically present but malformed identifier, e.g. "<?>".
Malformed == Hdr(0, 3)
\* An inbound X-Trace-ID / X-Span-ID value.
InTrace == Hdr(7, 16)
InSpan == Hdr(9, 8)

\* Faulty variant: the draws of different requests give the same strings.
FaultyUuidString(r, k) == [kind |-> "uuid", n |-> k, len |-> 36]

\* uuid.New().String(): a 36 character random string. Two draws never give
\* the same string: the k-th draw made while serving request r is numbered
\* by r and k.
UuidDraws == 3
UuidString(r, k) == [kind |-> "uuid", n |-> r * UuidDraws + k, len |-> 36]
\* Faulty variant: the prefix keeps nothing that tells two strings apart.
FaultyPrefix(s, k) == [kind |-> s.kind, n |-> 0, len |-> IF s.len < k THEN s.len ELSE k]

\* s[:k]
Prefix(s, k) == [s EXCEPT !.len = IF s.len < k THEN s.len ELSE k]

\* ------------------------------------------------------------------ logger
\* The values of LOG_LEVEL: the five names parseLevel knows and one it does not.
LevelNames == {"debug", "info", "warn", "error", "fatal", "verbose"}
\* The values of LOG_LEVEL the requests are served under: both events of the
\* chain pass, only the error event passes, none passes (an unknown name is
\* served as "info").
ServedLevels == {"info", "error", "fatal"}
LevelNum(l) ==
  CASE l = "debug" -> 0
    [] l = "info"  -> 1
    [] l = "warn"  -> 2
    [] l = "error" -> 3
    [] l = "fatal" -> 4

\* Faulty variant: a name that is not known gives the error level.
FaultyParseLevel(level) ==
  CASE level = "debug" -> "debug"
    [] level = "info"  -> "info"
    [] level = "warn"  -> "warn"
    [] level = "error" -> "error"
    [] level = "fatal" -> "fatal"
    [] OTHER           -> "error"

parseLevel(level) ==
  CASE level = "debug" -> "debug"
    [] level = "info"  -> "info"
    [] level = "warn"  -> "warn"
    [] level = "error" -> "error"
    [] level = "fatal" -> "fatal"
    [] OTHER           -> "info"

\* A context.Context as far as package logger reads it: the three keys, Empty
\* when the key holds no string.
NoCtx == [request_id |-> Empty, trace_id |-> Empty, span_id |-> Empty]

GetRequestID(ctx) == ctx.request_id
GetTraceID(ctx) == ctx.trace_id
GetSpanID(ctx) == ctx.span_id
\* Faulty variant: the child is derived from an empty context.
FaultyWithSpanID(ctx, spanID) == [NoCtx EXCEPT !.span_id = spanID]

WithSpanID(ctx, spanID) == [ctx EXCEPT !.span_id = spanID]
WithTraceID(ctx, traceID) == [ctx EXCEPT !.trace_id = traceID]

\* Faulty variant: the inbound request id is replaced by a generated one.
FaultyExtractTraceContext(ctx, requestID, traceID, r) ==
  [ctx EXCEPT !.request_id = UuidString(r, 1),
              !.trace_id = IF traceID = Empty THEN Prefix(UuidString(r, 2), 16) ELSE traceID,
              !.span_id = Prefix(UuidString(r, 3), 8)]

\* ExtractTraceContext(ctx, requestID, traceID), called while serving request r.
ExtractTraceContext(ctx, requestID, traceID, r) ==
  LET n1  == IF requestID = Empty THEN 1 ELSE 0
      rid == IF requestID = Empty THEN UuidString(r, n1) ELSE requestID
      n2  == IF traceID = Empty THEN n1 + 1 ELSE n1
      tid == IF traceID = Empty THEN Prefix(UuidString(r, n2), 16) ELSE traceID
      sid == Prefix(UuidString(r, n2 + 1), 8)
  IN  [ctx EXCEPT !.request_id = rid, !.trace_id = tid, !.span_id = sid]

\* Faulty variant: the request id is not among the context's fields.
FaultyWithContext(ctx) ==
  (IF ctx.trace_id # Empty THEN << <<"trace_id", ctx.trace_id>> >> ELSE << >>)
    \o (IF ctx.span_id # Empty THEN << <<"span_id", ctx.span_id>> >> ELSE << >>)

\* Logger.WithContext: the fields the context contributes, in order, each
\* only when non-empty.
WithContext(ctx) ==
  LET CtxField(key, v) == IF v # Empty THEN << <<key, v>> >> ELSE << >> IN
  CtxField("request_id", ctx.request_id) \o CtxField("trace_id", ctx.trace_id)
    \o CtxField("span_id", ctx.span_id)

\* Logger.WithFields(ctx, fields) followed by .<level>().Msg(msg): the
\* record written, context fields first, then the caller's map.
WithFields(ctx, fields, level, msg) ==
  [level |-> level, msg |-> msg, ctx |-> WithContext(ctx), fields |-> fields]

\* ------------------------------------------------------------------ state
VARIABLES
  tracingEnabled,   \* tracing.Config.Enabled (TRACING_ENABLED)
  chain,            \* the logging middleware installed: "TracedLogging" or "Logging"
  cfgLevel,         \* logger.Config.Level (LOG_LEVEL)
  inFlight,         \* Metrics.RequestsInFlight
  panicRecoveries,  \* Metrics.PanicRecoveries
  requestsTotal,    \* Metrics.RequestsTotal: label values -> count
  requestDuration,  \* Metrics.RequestDuration: label values -> number of observations
  pc,               \* per request: where in the chain it is
  inbound,          \* per request: the inbound headers and URL path
  span,             \* per request: the OTel span of r.Context()
  lctx,             \* per request: the context built by the logging middleware
  hdrs,             \* per request: w.Header(), the mutable response header map
  resp,             \* per request: what the transport has sent to the client
  tlStatus,         \* per request: statusCode of the logging middleware's responseWriter
  mStatus,          \* per request: statusCode of MetricsMiddleware's responseWriter
  hops,             \* per request: WriteHeader / Write calls the handler has made
  panicVal,         \* per request: the value the request's goroutine panicked with, or NoPanic
  unwinding,        \* per request: a panic is unwinding the stack (not yet recovered)
  life,             \* per request: the lifecycle steps taken so far, in order
  logs,             \* per request: the log events written to the sink for it
  composer,         \* a use of Chain: its argument (middlewares), the handler it
                    \* returned (composed), where a call of that handler stands
                    \* (cpc), how many of its wrappers are entered (depth) and
                    \* what it has run so far, in order (ctrace)
  proc,             \* the process: where main stands, the metric registry,
                    \* tracerProvider, db, the deferred calls and how it ended
  handler           \* the business handler being served: its route, position,
                    \* spans, the span calls made so far and how it left

config == <<tracingEnabled, chain, cfgLevel>>
serving == <<inFlight, panicRecoveries, requestsTotal, requestDuration, pc, inbound,
             span, lctx, hdrs, resp, tlStatus, mStatus, hops, panicVal, unwinding,
             life, logs>>
metrics == <<inFlight, panicRecoveries, requestsTotal, requestDuration>>
vars == <<tracingEnabled, chain, cfgLevel, inFlight, panicRecoveries,
          requestsTotal, requestDuration, pc, inbound, span, lctx, hdrs, resp,
          tlStatus, mStatus, hops, panicVal, unwinding, life, logs, composer,
          proc, handler>>

NoPanic == "no panic"
\* What the handler of request r panics with, and the stack debug.Stack then
\* returns: different values for different requests.
PanicValue(r) ==
  CASE r = 1 -> "runtime error: invalid memory address or nil pointer dereference"
    [] r = 2 -> "runtime error: index out of range [3] with length 3"
    [] OTHER -> "quote service unavailable"
StackTrace(r) ==
  CASE r = 1 -> "goroutine 1 [running]: main.helloHandler"
    [] r = 2 -> "goroutine 2 [running]: main.weatherHandler"
    [] OTHER -> "goroutine 3 [running]: main.quoteHandler"
PanicValues == {PanicValue(r) : r \in Requests}
HandlerCodes == {503}
StatusOK == 200
StatusInternalServerError == 500

NoSpan == [trace_id |-> Empty, span_id |-> Empty, attrs |-> FALSE, ended |-> FALSE]
NoHeaders == [XRequestID |-> Unset, XTraceID |-> Unset, XSpanID |-> Unset]
NoResponse == [wroteHeader |-> FALSE, status |-> 0, sent |-> NoHeaders,
               body |-> << >>, superfluous |-> 0]
NoInbound == [XRequestID |-> Empty, XTraceID |-> Empty, XSpanID |-> Empty,
              method |-> "GET", path |-> "/api/hello"]

\* The inbound requests the transport may hand to the chain.
RequestIDs(r) == IF r \in RichRequests THEN {Empty, Req42, Malformed} ELSE {Empty}
TraceIDs(r) == IF r \in RichRequests THEN {Empty, InTrace} ELSE {Empty}
Inbound(r) ==
  [XRequestID : RequestIDs(r), XTraceID : TraceIDs(r), XSpanID : {InSpan},
   method : {"GET"}, path : {"/api/hello"}]
\* How many WriteHeader / Write calls the handler of request r may make.
HandlerOps(r) == IF r \in RichRequests THEN MaxHandlerOps ELSE 0

\* Nothing served yet.
\* The process before package initialisation: nothing registered, no
\* tracerProvider, db nil, nothing deferred, no request served.
NotStarted ==
  [phase |-> "init", registry |-> << >>, provider |-> "none", db |-> "nil",
   deferred |-> << >>, ran |-> << >>, signalled |-> FALSE, waited |-> 0,
   served |-> 0, exit |-> "running"]

\* No business handler is running.
NoHandler ==
  [route |-> "none", location |-> "", at |-> "idle", spans |-> << >>,
   calls |-> << >>, deferred |-> << >>, status |-> 0, exit |-> "none"]

InitServing ==
  /\ inFlight = 0
  /\ panicRecoveries = 0
  /\ requestsTotal = << >>
  /\ requestDuration = << >>
  /\ pc = [r \in Requests |-> "idle"]
  /\ inbound = [r \in Requests |-> NoInbound]
  /\ span = [r \in Requests |-> NoSpan]
  /\ lctx = [r \in Requests |-> NoCtx]
  /\ hdrs = [r \in Requests |-> NoHeaders]
  /\ resp = [r \in Requests |-> NoResponse]
  /\ tlStatus = [r \in Requests |-> 0]
  /\ mStatus = [r \in Requests |-> 0]
  /\ hops = [r \in Requests |-> 0]
  /\ panicVal = [r \in Requests |-> NoPanic]
  /\ unwinding = [r \in Requests |-> FALSE]
  /\ life = [r \in Requests |-> << >>]
  /\ logs = [r \in Requests |-> << >>]
  /\ composer = [middlewares |-> << >>, composed |-> << >>, cpc |-> "idle",
                 depth |-> 0, ctrace |-> << >>]
  /\ proc = NotStarted
  /\ handler = NoHandler

Init ==
  /\ tracingEnabled \in BOOLEAN
  /\ chain \in {"TracedLogging", "Logging"}
  /\ cfgLevel \in ServedLevels
  /\ InitServing

\* --------------------------------------------------------------- transport
\* http.ResponseWriter.WriteHeader on the connection: the first call sends the
\* status line and the header map as it is then; a later call sends nothing.
ConnWriteHeader(w, h, code) ==
  IF w.wroteHeader
    THEN [w EXCEPT !.superfluous = @ + 1]
    ELSE [w EXCEPT !.wroteHeader = TRUE, !.status = code, !.sent = h]

\* http.ResponseWriter.Write on the connection: sends the header with 200 first
\* when none was sent.
ConnWrite(w, h, chunk) ==
  LET w1 == IF w.wroteHeader THEN w
            ELSE [w EXCEPT !.wroteHeader = TRUE, !.status = StatusOK, !.sent = h]
  IN  [w1 EXCEPT !.body = Append(@, chunk)]

\* zerolog: an event below the logger's level is dropped.
Emit(sink, ev) ==
  IF LevelNum(ev.level) >= LevelNum(parseLevel(cfgLevel)) THEN Append(sink, ev) ELSE sink

\* Faulty variant: an increment that overwrites what another request added.
FaultyIncVec(vec, lv) == (lv :> 1) @@ vec

\* CounterVec.WithLabelValues(lv...).Inc() / HistogramVec...Observe()
IncVec(vec, lv) ==
  IF lv \in DOMAIN vec THEN [vec EXCEPT ![lv] = @ + 1] ELSE vec @@ (lv :> 1)

\* The transport's finishRequest once the chain has returned: a handler that
\* wrote nothing gets the header sent with 200.
ConnFinish(w, h) ==
  IF w.wroteHeader THEN w
  ELSE [w EXCEPT !.wroteHeader = TRUE, !.status = StatusOK, !.sent = h]

\* ----------------------------------------------------------------- tracing
\* The ids the tracer SDK assigns to the server span of request r.
OTelTraceID(r) == [kind |-> "otel", n |-> r, len |-> 32]
OTelSpanID(r) == [kind |-> "otel", n |-> r, len |-> 16]

\* Faulty variant: the span's trace id is never found.
FaultyTracingGetTraceID(sp) == Empty

\* tracing.GetTraceID / tracing.GetSpanID: "" unless the span has the id.
TracingGetTraceID(sp) == IF sp.trace_id # Empty THEN sp.trace_id ELSE Empty
TracingGetSpanID(sp) == IF sp.span_id # Empty THEN sp.span_id ELSE Empty

\* The transport hands a request to the chain, whose first middleware is
\* OTelMiddleware: with the SDK provider installed (InitTracer, Enabled) every
\* request gets a sampled server span; without it the global provider is the
\* no-op one, whose span has no ids.
OTelMiddleware(r) ==
  /\ pc[r] = "idle"
  /\ \E req \in Inbound(r) : inbound' = [inbound EXCEPT ![r] = req]
  /\ span' = [span EXCEPT ![r] =
       IF tracingEnabled
         THEN [trace_id |-> OTelTraceID(r), span_id |-> OTelSpanID(r),
               attrs |-> FALSE, ended |-> FALSE]
         ELSE NoSpan]
  /\ pc' = [pc EXCEPT ![r] = "recovery"]
  /\ life' = [life EXCEPT ![r] = @ \o <<"span start">>]
  /\ UNCHANGED <<config, composer, proc, handler, metrics, lctx, hdrs, resp, tlStatus, mStatus, hops,
                 panicVal, unwinding, logs>>

\* otelmux's deferred span.End() once the inner chain has returned; the
\* transport then finishes the response (a panic still unwinding here would
\* reach the server's own recover, which aborts the connection instead).
OTelExit(r) ==
  /\ pc[r] = "otelexit"
  /\ span' = [span EXCEPT ![r] =
       IF @.span_id # Empty THEN [@ EXCEPT !.ended = TRUE] ELSE @]
  /\ resp' = [resp EXCEPT ![r] = IF unwinding[r] THEN @ ELSE ConnFinish(@, hdrs[r])]
  /\ pc' = [pc EXCEPT ![r] = "done"]
  /\ life' = [life EXCEPT ![r] = @ \o <<"span end">>]
  /\ UNCHANGED <<config, composer, proc, handler, metrics, inbound, lctx, hdrs, tlStatus, mStatus, hops,
                 panicVal, unwinding, logs>>

\* ---------------------------------------------------------------- Recovery
\* Recovery up to next.ServeHTTP: the deferred function is installed.
RecoveryEnter(r) ==
  /\ pc[r] = "recovery"
  /\ pc' = [pc EXCEPT ![r] = "logpre"]
  /\ UNCHANGED <<config, composer, proc, handler, life, metrics, inbound, span, lctx, hdrs, resp,
                 tlStatus, mStatus, hops, panicVal, unwinding, logs>>

\* r.Context() inside Recovery: Recovery's r is the request OTel passed on; the
\* logging middleware's r.WithContext(ctx) makes a copy for the inner handlers
\* only, so none of package logger's keys is set here.
RecoveryContext(r) == NoCtx

\* log.WithFields(r.Context(), {...}).Error().Msg("Panic recovered")
PanicEvent(r, err) ==
  WithFields(RecoveryContext(r),
             [method |-> inbound[r].method, path |-> inbound[r].path,
              panic |-> err, stacktrace |-> StackTrace(r)],
             "error", "Panic recovered")

\* Faulty variant: the panic value is sent as the body of the response.
FaultyPanicBody(err) == err

\* The text Recovery passes to http.Error: the same for every panic value.
PanicBody(err) == "Internal Server Error"

\* Faulty variant: Recovery writes no response.
FaultyRecoveryResponse(w, h, err) == w

\* http.Error(w, "Internal Server Error", 500) on Recovery's w, whatever was
\* sent before: WriteHeader(500), then the text as body. err is the value
\* recover() returned.
RecoveryResponse(w, h, err) ==
  ConnWrite(ConnWriteHeader(w, h, StatusInternalServerError), h, PanicBody(err))

\* Faulty variant: the deferred function does not call recover().
FaultyRecoveryDefer(r) ==
  /\ pc[r] = "recoverydefer"
  /\ pc' = [pc EXCEPT ![r] = "otelexit"]
  /\ UNCHANGED <<config, composer, proc, handler, metrics, inbound, span, lctx, hdrs, resp,
                 tlStatus, mStatus, hops, panicVal, unwinding, life, logs>>

\* Recovery's deferred function, run when next.ServeHTTP returned or panicked.
RecoveryDefer(r) ==
  /\ pc[r] = "recoverydefer"
  /\ IF unwinding[r]
       THEN /\ unwinding' = [unwinding EXCEPT ![r] = FALSE]
            /\ logs' = [logs EXCEPT ![r] = Emit(@, PanicEvent(r, panicVal[r]))]
            /\ panicRecoveries' = panicRecoveries + 1
            /\ resp' = [resp EXCEPT ![r] = RecoveryResponse(@, hdrs[r], panicVal[r])]
            /\ life' = [life EXCEPT ![r] = Append(@, "panic recovered")]
       ELSE UNCHANGED <<unwinding, logs, panicRecoveries, resp, life>>
  /\ pc' = [pc EXCEPT ![r] = "otelexit"]
  /\ UNCHANGED <<config, composer, proc, handler, inFlight, requestsTotal, requestDuration,
                 inbound, span, lctx, hdrs, tlStatus, mStatus, hops, panicVal>>

\* ----------------------------------------------------- logging middlewares
\* Faulty variant: the inbound header first, the span's trace id after it.
FaultyTracedTraceID(sp, req) ==
  IF req.XTraceID # Empty THEN req.XTraceID ELSE TracingGetTraceID(sp)

\* TracedLogging's otelTraceID: the span's trace id, and the X-Trace-ID
\* header only when the span has none.
TracedTraceID(sp, req) ==
  IF TracingGetTraceID(sp) = Empty THEN req.XTraceID ELSE TracingGetTraceID(sp)

\* Faulty variant: the span id is not overridden by the OTel span id.
FaultyTracedContext(sp, req, r) ==
  ExtractTraceContext(NoCtx, req.XRequestID,
                      IF TracingGetTraceID(sp) = Empty THEN req.XTraceID
                      ELSE TracingGetTraceID(sp), r)

\* TracedLogging's ctx: ExtractTraceContext with the inbound request id and
\* otelTraceID, the span id overridden by the OTel span id when there is one.
TracedContext(sp, req, r) ==
  LET ctx == ExtractTraceContext(NoCtx, req.XRequestID, TracedTraceID(sp, req), r)
  IN  IF TracingGetSpanID(sp) # Empty THEN WithSpanID(ctx, TracingGetSpanID(sp)) ELSE ctx

\* Faulty variant: X-Span-ID is set whether or not there is an OTel span id.
FaultyTracedHeaders(h, ctx, sp, req) ==
  [h EXCEPT !.XRequestID = GetRequestID(ctx),
            !.XTraceID = IF TracingGetTraceID(sp) = Empty THEN req.XTraceID
                         ELSE TracingGetTraceID(sp),
            !.XSpanID = TracingGetSpanID(sp)]

\* TracedLogging's w.Header().Set calls.
TracedHeaders(h, ctx, sp, req) ==
  LET h1 == [h EXCEPT !.XRequestID = GetRequestID(ctx),
                      !.XTraceID = TracedTraceID(sp, req)]
  IN  IF TracingGetSpanID(sp) # Empty
        THEN [h1 EXCEPT !.XSpanID = TracingGetSpanID(sp)] ELSE h1

\* TracedLogging up to next.ServeHTTP.
TracedLoggingPre(r) ==
  /\ pc[r] = "logpre"
  /\ chain = "TracedLogging"
  /\ LET ctx == TracedContext(span[r], inbound[r], r)
     IN  /\ lctx' = [lctx EXCEPT ![r] = ctx]
         /\ hdrs' = [hdrs EXCEPT ![r] = TracedHeaders(@, ctx, span[r], inbound[r])]
  /\ tlStatus' = [tlStatus EXCEPT ![r] = StatusOK]
  /\ pc' = [pc EXCEPT ![r] = "metricspre"]
  /\ life' = [life EXCEPT ![r] = @ \o <<"ids resolved", "headers stamped">>]
  /\ UNCHANGED <<config, composer, proc, handler, metrics, inbound, span, resp, mStatus, hops, panicVal, unwinding, logs>>

\* The fields TracedLogging passes to log.WithFields (duration_ms, remote_addr
\* and user_agent carry no identifier and are left out).
TracedFields(r) ==
  [method |-> inbound[r].method, path |-> inbound[r].path, status |-> tlStatus[r],
   trace_id |-> TracedTraceID(span[r], inbound[r]),
   span_id |-> TracingGetSpanID(span[r])]

\* Faulty variant: the completion event is written before the span
\* attributes are set.
FaultyTracedLoggingPost(r) ==
  /\ pc[r] = "logpost"
  /\ chain = "TracedLogging"
  /\ span' = [span EXCEPT ![r] =
       IF @.span_id # Empty /\ ~@.ended THEN [@ EXCEPT !.attrs = TRUE] ELSE @]
  /\ logs' = [logs EXCEPT ![r] =
       Emit(@, WithFields(lctx[r], TracedFields(r), "info", "HTTP request completed"))]
  /\ pc' = [pc EXCEPT ![r] = "recoverydefer"]
  /\ life' = [life EXCEPT ![r] = @ \o <<"completion log", "span attributes">>]
  /\ UNCHANGED <<config, composer, proc, handler, metrics, inbound, lctx, hdrs, resp, tlStatus,
                 mStatus, hops, panicVal, unwinding>>

\* TracedLogging after next.ServeHTTP returned: span attributes, then the log.
TracedLoggingPost(r) ==
  /\ pc[r] = "logpost"
  /\ chain = "TracedLogging"
  /\ span' = [span EXCEPT ![r] =
       IF @.span_id # Empty /\ ~@.ended THEN [@ EXCEPT !.attrs = TRUE] ELSE @]
  /\ logs' = [logs EXCEPT ![r] =
       Emit(@, WithFields(lctx[r], TracedFields(r), "info", "HTTP request completed"))]
  /\ pc' = [pc EXCEPT ![r] = "recoverydefer"]
  /\ life' = [life EXCEPT ![r] = @ \o <<"span attributes", "completion log">>]
  /\ UNCHANGED <<config, composer, proc, handler, metrics, inbound, lctx, hdrs, resp, tlStatus,
                 mStatus, hops, panicVal, unwinding>>

\* Logging's ctx: ExtractTraceContext with the two inbound headers.
LoggingContext(req, r) ==
  ExtractTraceContext(NoCtx, req.XRequestID, req.XTraceID, r)

\* Logging's w.Header().Set calls.
LoggingHeaders(h, ctx) ==
  [h EXCEPT !.XRequestID = GetRequestID(ctx), !.XTraceID = GetTraceID(ctx)]

\* Logging up to next.ServeHTTP.
LoggingPre(r) ==
  /\ pc[r] = "logpre"
  /\ chain = "Logging"
  /\ LET ctx == LoggingContext(inbound[r], r)
     IN  /\ lctx' = [lctx EXCEPT ![r] = ctx]
         /\ hdrs' = [hdrs EXCEPT ![r] = LoggingHeaders(@, ctx)]
  /\ tlStatus' = [tlStatus EXCEPT ![r] = StatusOK]
  /\ pc' = [pc EXCEPT ![r] = "metricspre"]
  /\ life' = [life EXCEPT ![r] = @ \o <<"ids resolved", "headers stamped">>]
  /\ UNCHANGED <<config, composer, proc, handler, metrics, inbound, span, resp, mStatus, hops, panicVal, unwinding, logs>>

\* The fields Logging passes to log.WithFields (as for TracedFields).
LoggingFields(r) ==
  [method |-> inbound[r].method, path |-> inbound[r].path, status |-> tlStatus[r]]

\* Logging after next.ServeHTTP returned.
LoggingPost(r) ==
  /\ pc[r] = "logpost"
  /\ chain = "Logging"
  /\ logs' = [logs EXCEPT ![r] =
       Emit(@, WithFields(lctx[r], LoggingFields(r), "info", "HTTP request completed"))]
  /\ pc' = [pc EXCEPT ![r] = "recoverydefer"]
  /\ life' = [life EXCEPT ![r] = @ \o <<"completion log">>]
  /\ UNCHANGED <<config, composer, proc, handler, metrics, inbound, span, lctx, hdrs, resp,
                 tlStatus, mStatus, hops, panicVal, unwinding>>

\* ------------------------------------------------------- MetricsMiddleware
\* MetricsMiddleware up to next.ServeHTTP: RequestsInFlight.Inc().
MetricsPre(r) ==
  /\ pc[r] = "metricspre"
  /\ mStatus' = [mStatus EXCEPT ![r] = StatusOK]
  /\ inFlight' = inFlight + 1
  /\ pc' = [pc EXCEPT ![r] = "handler"]
  /\ life' = [life EXCEPT ![r] = @ \o <<"in-flight inc">>]
  /\ UNCHANGED <<config, composer, proc, handler, panicRecoveries, requestsTotal, requestDuration,
                 inbound, span, lctx, hdrs, resp, tlStatus, hops, panicVal, unwinding, logs>>

\* fmt.Sprintf("%d", rw.statusCode): the decimal digits of the code.
FormatStatus(code) == <<code \div 100, (code \div 10) % 10, code % 10>>

\* MetricsMiddleware after next.ServeHTTP returned: count and duration.
MetricsPost(r) ==
  /\ pc[r] = "metricspost"
  /\ requestsTotal' = IncVec(requestsTotal,
       <<inbound[r].method, inbound[r].path, FormatStatus(mStatus[r])>>)
  /\ requestDuration' = IncVec(requestDuration, <<inbound[r].method, inbound[r].path>>)
  /\ pc' = [pc EXCEPT ![r] = "metricsdefer"]
  /\ life' = [life EXCEPT ![r] = @ \o <<"count recorded", "duration recorded">>]
  /\ UNCHANGED <<config, composer, proc, handler, inFlight, panicRecoveries, inbound, span, lctx,
                 hdrs, resp, tlStatus, mStatus, hops, panicVal, unwinding, logs>>

\* Faulty variant: Dec() is not deferred, a panic skips it.
FaultyMetricsDefer(r) ==
  /\ pc[r] = "metricsdefer"
  /\ inFlight' = IF unwinding[r] THEN inFlight ELSE inFlight - 1
  /\ pc' = [pc EXCEPT ![r] = IF unwinding[r] THEN "recoverydefer" ELSE "logpost"]
  /\ life' = [life EXCEPT ![r] = IF unwinding[r] THEN @ ELSE Append(@, "in-flight dec")]
  /\ UNCHANGED <<config, composer, proc, handler, panicRecoveries, requestsTotal, requestDuration,
                 inbound, span, lctx, hdrs, resp, tlStatus, mStatus, hops, panicVal, unwinding, logs>>

\* The deferred RequestsInFlight.Dec(), on return and on panic. A panic then
\* unwinds through the logging middleware, which has no deferred code.
MetricsDefer(r) ==
  /\ pc[r] = "metricsdefer"
  /\ inFlight' = inFlight - 1
  /\ pc' = [pc EXCEPT ![r] = IF unwinding[r] THEN "recoverydefer" ELSE "logpost"]
  /\ life' = [life EXCEPT ![r] = @ \o <<"in-flight dec">>]
  /\ UNCHANGED <<config, composer, proc, handler, panicRecoveries, requestsTotal, requestDuration,
                 inbound, span, lctx, hdrs, resp, tlStatus, mStatus, hops, panicVal, unwinding, logs>>

\* ---------------------------------------------------------------- handler
\* responseWriter.WriteHeader(code): records the code, then passes it on.
RwWriteHeader(statusCode, code) == code

\* The handler calls w.WriteHeader(code): through MetricsMiddleware's and the
\* logging middleware's responseWriter down to the connection.
HandlerWriteHeader(r) ==
  /\ pc[r] = "handler"
  /\ hops[r] < HandlerOps(r)
  /\ \E code \in HandlerCodes :
       /\ mStatus' = [mStatus EXCEPT ![r] = RwWriteHeader(@, code)]
       /\ tlStatus' = [tlStatus EXCEPT ![r] = RwWriteHeader(@, code)]
       /\ resp' = [resp EXCEPT ![r] = ConnWriteHeader(@, hdrs[r], code)]
  /\ hops' = [hops EXCEPT ![r] = @ + 1]
  /\ UNCHANGED <<config, composer, proc, handler, life, metrics, pc, inbound, span, lctx, hdrs, panicVal, unwinding, logs>>

\* The handler calls w.Write: responseWriter has no Write of its own, the
\* embedded writer's is used.
HandlerWrite(r) ==
  /\ pc[r] = "handler"
  /\ hops[r] < HandlerOps(r)
  /\ resp' = [resp EXCEPT ![r] = ConnWrite(@, hdrs[r], "handler body")]
  /\ hops' = [hops EXCEPT ![r] = @ + 1]
  /\ UNCHANGED <<config, composer, proc, handler, life, metrics, pc, inbound, span, lctx, hdrs, tlStatus,
                 mStatus, panicVal, unwinding, logs>>

\* The handler panics: the stack unwinds to MetricsMiddleware's defer.
HandlerPanic(r) ==
  /\ pc[r] = "handler"
  /\ panicVal' = [panicVal EXCEPT ![r] = PanicValue(r)]
  /\ unwinding' = [unwinding EXCEPT ![r] = TRUE]
  /\ life' = [life EXCEPT ![r] = Append(@, "handler")]
  /\ pc' = [pc EXCEPT ![r] = "metricsdefer"]
  /\ UNCHANGED <<config, composer, proc, handler, metrics, inbound, span, lctx, hdrs, resp, tlStatus,
                 mStatus, hops, logs>>

\* The handler returns.
HandlerReturn(r) ==
  /\ pc[r] = "handler"
  /\ pc' = [pc EXCEPT ![r] = "metricspost"]
  /\ life' = [life EXCEPT ![r] = @ \o <<"handler">>]
  /\ UNCHANGED <<config, composer, proc, handler, metrics, inbound, span, lctx, hdrs, resp, tlStatus,
                 mStatus, hops, panicVal, unwinding, logs>>

\* ------------------------------------------------------------ specification
Next ==
  \E r \in Requests :
    \/ OTelMiddleware(r)
    \/ RecoveryEnter(r)
    \/ TracedLoggingPre(r)
    \/ LoggingPre(r)
    \/ MetricsPre(r)
    \/ HandlerWriteHeader(r)
    \/ HandlerWrite(r)
    \/ HandlerPanic(r)
    \/ HandlerReturn(r)
    \/ MetricsPost(r)
    \/ MetricsDefer(r)
    \/ TracedLoggingPost(r)
    \/ LoggingPost(r)
    \/ RecoveryDefer(r)
    \/ OTelExit(r)

Spec == Init /\ [][Next]_vars

\* ------------------------------------------------------ panics in middleware
\* A call MetricsMiddleware makes after next.ServeHTTP returned panics
\* (WithLabelValues panics on a label value the registry rejects): the stack
\* unwinds to MetricsMiddleware's defer.
MetricsPanic(r) ==
  /\ pc[r] = "metricspost"
  /\ panicVal' = [panicVal EXCEPT ![r] = PanicValue(r)]
  /\ unwinding' = [unwinding EXCEPT ![r] = TRUE]
  /\ life' = [life EXCEPT ![r] = Append(@, "panic in MetricsMiddleware")]
  /\ pc' = [pc EXCEPT ![r] = "metricsdefer"]
  /\ UNCHANGED <<config, composer, proc, handler, metrics, inbound, span, lctx, hdrs, resp,
                 tlStatus, mStatus, hops, logs>>

\* A call TracedLogging makes panics, before or after next.ServeHTTP:
\* TracedLogging has no deferred code, the stack unwinds to Recovery's.
TracedLoggingPanic(r) ==
  /\ pc[r] \in {"logpre", "logpost"}
  /\ panicVal' = [panicVal EXCEPT ![r] = PanicValue(r)]
  /\ unwinding' = [unwinding EXCEPT ![r] = TRUE]
  /\ life' = [life EXCEPT ![r] = Append(@, "panic in TracedLogging")]
  /\ pc' = [pc EXCEPT ![r] = "recoverydefer"]
  /\ UNCHANGED <<config, composer, proc, handler, metrics, inbound, span, lctx, hdrs, resp,
                 tlStatus, mStatus, hops, logs>>

\* The chain as main wires it, at the default log level.
InitWired ==
  /\ Init
  /\ chain = "TracedLogging"
  /\ cfgLevel = "info"

\* The steps of the wired chain, any of its middlewares panicking included.
NextPanics ==
  \E r \in Requests :
    \/ OTelMiddleware(r)
    \/ RecoveryEnter(r)
    \/ TracedLoggingPre(r)
    \/ MetricsPre(r)
    \/ HandlerWriteHeader(r)
    \/ HandlerWrite(r)
    \/ HandlerPanic(r)
    \/ HandlerReturn(r)
    \/ MetricsPost(r)
    \/ MetricsPanic(r)
    \/ MetricsDefer(r)
    \/ TracedLoggingPost(r)
    \/ TracedLoggingPanic(r)
    \/ RecoveryDefer(r)
    \/ OTelExit(r)

SpecPanics == InitWired /\ [][NextPanics]_vars

\* ----------------------------------------------------------- every log level
\* The wired chain with tracing disabled, under every value of LOG_LEVEL.
InitLevels ==
  /\ tracingEnabled = FALSE
  /\ chain = "TracedLogging"
  /\ cfgLevel \in LevelNames
  /\ InitServing

\* The steps of the wired chain.
NextWired ==
  \E r \in Requests :
    \/ OTelMiddleware(r)
    \/ RecoveryEnter(r)
    \/ TracedLoggingPre(r)
    \/ MetricsPre(r)
    \/ HandlerWriteHeader(r)
    \/ HandlerWrite(r)
    \/ HandlerPanic(r)
    \/ HandlerReturn(r)
    \/ MetricsPost(r)
    \/ MetricsDefer(r)
    \/ TracedLoggingPost(r)
    \/ RecoveryDefer(r)
    \/ OTelExit(r)

SpecLevels == InitLevels /\ [][NextWired]_vars

\* -------------------------------------------------------------------- Chain
\* Handlers as Chain sees them: the business handler, and a middleware
\* wrapped around a handler. A handler is written as the list of what a call
\* of it enters, outermost first, the business handler last.
MaxChain == 3
MiddlewareNames == {"Recovery", "TracedLogging", "MetricsMiddleware"}
FinalHandler == <<"final">>
Apply(m, next) == <<m>> \o next

\* Faulty variant: the loop runs from the first middleware to the last.
RECURSIVE FaultyChainLoop(_, _, _)
FaultyChainLoop(ms, i, final) ==
  IF i <= Len(ms) THEN FaultyChainLoop(ms, i + 1, Apply(ms[i], final)) ELSE final
FaultyChain(ms, final) == FaultyChainLoop(ms, 1, final)

\* for i := len(middlewares) - 1; i >= 0; i-- { final = middlewares[i](final) }
RECURSIVE ChainLoop(_, _, _)
ChainLoop(ms, i, final) ==
  IF i >= 1 THEN ChainLoop(ms, i - 1, Apply(ms[i], final)) ELSE final
Chain(ms, final) == ChainLoop(ms, Len(ms), final)

\* The lists of at most n middlewares.
ChainArgs(n) == UNION {[1..k -> MiddlewareNames] : k \in 0..n}

InitChain ==
  /\ Init
  /\ tracingEnabled = TRUE
  /\ chain = "TracedLogging"
  /\ cfgLevel = "info"

\* main calls Chain with some list of middlewares and the business handler.
ChainCall ==
  /\ composer.cpc = "idle"
  /\ \E ms \in ChainArgs(MaxChain) :
       composer' = [composer EXCEPT !.middlewares = ms,
                                    !.composed = Chain(ms, FinalHandler),
                                    !.cpc = "serve"]
  /\ UNCHANGED <<config, serving, proc, handler>>

\* ServeHTTP of a wrapper: the middleware's code before next.ServeHTTP.
ChainEnter ==
  /\ composer.cpc = "serve"
  /\ composer.depth + 1 < Len(composer.composed)
  /\ composer' = [composer EXCEPT
       !.ctrace = Append(@, <<"pre", composer.composed[composer.depth + 1]>>),
       !.depth = @ + 1]
  /\ UNCHANGED <<config, serving, proc, handler>>

\* ServeHTTP of the business handler.
ChainFinal ==
  /\ composer.cpc = "serve"
  /\ composer.depth + 1 = Len(composer.composed)
  /\ composer' = [composer EXCEPT
       !.ctrace = Append(@, <<"run", composer.composed[composer.depth + 1]>>),
       !.cpc = "return"]
  /\ UNCHANGED <<config, serving, proc, handler>>

\* next.ServeHTTP returned: the middleware's code after it.
ChainLeave ==
  /\ composer.cpc = "return"
  /\ composer.depth > 0
  /\ composer' = [composer EXCEPT
       !.ctrace = Append(@, <<"post", composer.composed[composer.depth]>>),
       !.depth = @ - 1]
  /\ UNCHANGED <<config, serving, proc, handler>>

NextChain == ChainCall \/ ChainEnter \/ ChainFinal \/ ChainLeave

SpecChain == InitChain /\ [][NextChain]_vars

\* ------------------------------------------------------------- the process
\* The variables of the middleware chain, which main and the business
\* handlers leave alone.
chainState == <<chain, cfgLevel, inFlight, panicRecoveries, pc, inbound, span,
                lctx, hdrs, resp, tlStatus, mStatus, hops, panicVal, unwinding,
                life, logs, composer>>

\* context.WithTimeout(context.Background(), 30*time.Second)
ShutdownTimeout == 30

\* Requests the server serves in one run of the process.
MaxServed == 2

\* The series main's package initialisation registers, in order.
InitSeries ==
  <<"http_requests_total", "http_request_duration_seconds",
    "http_requests_in_flight", "errors_total", "panic_recoveries_total">>

\* Namespaces NewMetrics is called with.
Namespaces == {"", "goapi"}

\* prometheus.BuildFQName with no subsystem.
FQName(namespace, name) ==
  IF namespace = "" THEN name ELSE namespace \o "_" \o name

\* The series NewMetrics builds, in the order it registers them.
NewMetricsSeries(namespace) ==
  <<FQName(namespace, "http_requests_total"),
    FQName(namespace, "http_request_duration_seconds"),
    FQName(namespace, "http_requests_in_flight"),
    FQName(namespace, "panic_recoveries_total")>>

Registered(registry, name) == \E i \in DOMAIN registry : registry[i] = name

\* Faulty variant: a collector is added whether or not its name is taken.
FaultyMustRegister(registry, name) ==
  [panicked |-> FALSE, registry |-> Append(registry, name)]

\* prometheus.MustRegister on the default registry: a name already registered
\* panics, anything else is added.
MustRegister(registry, name) ==
  IF Registered(registry, name)
    THEN [panicked |-> TRUE, registry |-> registry]
    ELSE [panicked |-> FALSE, registry |-> Append(registry, name)]

\* MustRegister called for each of names in turn; a panic ends the sequence.
RECURSIVE RegisterAll(_, _)
RegisterAll(registry, names) ==
  IF names = << >>
    THEN [panicked |-> FALSE, registry |-> registry]
    ELSE LET first == MustRegister(registry, Head(names))
         IN  IF first.panicked THEN first
             ELSE RegisterAll(first.registry, Tail(names))

\* tracing.InitTracer: disabled gives a Provider holding only a tracer;
\* enabled gives the SDK provider unless the resource or the exporter fails.
InitTracer(enabled, setup) ==
  IF ~enabled THEN [provider |-> "noop", err |-> "nil"]
  ELSE IF setup = "nil" THEN [provider |-> "sdk", err |-> "nil"]
  ELSE [provider |-> "none", err |-> setup]

\* Faulty variant: shutting down a Provider without an SDK provider fails.
FaultyShutdown(provider, flush) ==
  IF provider = "sdk" THEN flush ELSE "no provider"

\* Provider.Shutdown: the SDK provider's Shutdown when there is one, else nil.
Shutdown(provider, flush) ==
  IF provider = "sdk" THEN flush ELSE "nil"

\* log.Fatal(): the event is written and os.Exit(1) ends the process; no
\* deferred call runs.
Fatal(p) == [p EXCEPT !.phase = "exited", !.exit = "fatal"]

\* A panic in main, or main returning: the deferred calls run, last first.
Unwind(p, how) ==
  IF p.deferred = << >> THEN [p EXCEPT !.phase = "exited", !.exit = how]
  ELSE [p EXCEPT !.phase = "unwinding", !.exit = how]

\* func init(): the five series are registered before main runs.
PackageInit ==
  /\ proc.phase = "init"
  /\ LET reg == RegisterAll(proc.registry, InitSeries)
     IN  proc' = IF reg.panicked
                   THEN Unwind([proc EXCEPT !.registry = reg.registry], "panic")
                   ELSE [proc EXCEPT !.registry = reg.registry, !.phase = "tracer"]
  /\ UNCHANGED <<tracingEnabled, chainState, requestsTotal, requestDuration, handler>>

\* main: tracing.InitTracer, log.Fatal on error, else defer tracerProvider.Shutdown.
MainInitTracer ==
  /\ proc.phase = "tracer"
  /\ \E setup \in {"nil", "exporter failed"} :
       LET t == InitTracer(tracingEnabled, setup)
       IN  proc' = IF t.err # "nil"
                     THEN Fatal(proc)
                     ELSE [proc EXCEPT !.provider = t.provider,
                                       !.deferred = Append(@, "tracerProvider.Shutdown"),
                                       !.phase = "db"]
  /\ UNCHANGED <<tracingEnabled, chainState, requestsTotal, requestDuration, handler>>

\* main: database.New when DB_HOST is set; on success db.Close is deferred,
\* on failure the process runs without db.
MainConnectDB ==
  /\ proc.phase = "db"
  /\ \E dbHost \in {"", "postgres"}, connect \in {"nil", "refused"} :
       proc' = IF dbHost # "" /\ connect = "nil"
                 THEN [proc EXCEPT !.db = "open",
                                   !.deferred = Append(@, "db.Close"),
                                   !.phase = "metrics"]
                 ELSE [proc EXCEPT !.db = "nil", !.phase = "metrics"]
  /\ UNCHANGED <<tracingEnabled, chainState, requestsTotal, requestDuration, handler>>

\* NewMetrics(namespace), applied while the program is being constructed (main
\* itself builds its Metrics from the init series and never calls it).
NewMetrics ==
  /\ proc.phase = "metrics"
  /\ \E namespace \in Namespaces :
       LET reg == RegisterAll(proc.registry, NewMetricsSeries(namespace))
       IN  proc' = IF reg.panicked
                     THEN Unwind([proc EXCEPT !.registry = reg.registry], "panic")
                     ELSE [proc EXCEPT !.registry = reg.registry]
  /\ UNCHANGED <<tracingEnabled, chainState, requestsTotal, requestDuration, handler>>

\* main: the Metrics of the init series, the router, and the goroutine that
\* runs srv.ListenAndServe.
MainServe ==
  /\ proc.phase = "metrics"
  /\ proc' = [proc EXCEPT !.phase = "serving"]
  /\ UNCHANGED <<tracingEnabled, chainState, requestsTotal, requestDuration, handler>>

\* The server goroutine: ListenAndServe returns an error other than
\* ErrServerClosed, and log.Fatal ends the process.
ListenFails ==
  /\ proc.phase = "serving"
  /\ proc.served = 0
  /\ handler = NoHandler
  /\ proc' = Fatal(proc)
  /\ UNCHANGED <<tracingEnabled, chainState, requestsTotal, requestDuration, handler>>

\* main: SIGINT or SIGTERM arrives; the shutdown context is made and its
\* cancel deferred.
Signal ==
  /\ proc.phase = "serving"
  /\ proc' = [proc EXCEPT !.signalled = TRUE,
                          !.deferred = Append(@, "cancel"),
                          !.phase = "shutdown"]
  /\ UNCHANGED <<tracingEnabled, chainState, requestsTotal, requestDuration, handler>>

\* srv.Shutdown returns once no request is in flight: nil, or the error of
\* closing the listener. On an error main calls log.Fatal, else it returns.
SrvShutdown ==
  /\ proc.phase = "shutdown"
  /\ handler = NoHandler
  /\ \E err \in {"nil", "close failed"} :
       proc' = IF err # "nil" THEN Fatal(proc) ELSE Unwind(proc, "returned")
  /\ UNCHANGED <<tracingEnabled, chainState, requestsTotal, requestDuration, handler>>

\* srv.Shutdown while a request is still in flight when the shutdown context
\* expires: it returns the context's error, and main calls log.Fatal.
SrvShutdownDeadline ==
  /\ proc.phase = "shutdown"
  /\ handler # NoHandler
  /\ proc' = Fatal([proc EXCEPT !.waited = ShutdownTimeout])
  /\ UNCHANGED <<tracingEnabled, chainState, requestsTotal, requestDuration, handler>>

\* One deferred call of main runs: cancel, db.Close or tracerProvider.Shutdown.
RunDeferred ==
  /\ proc.phase = "unwinding"
  /\ proc.deferred # << >>
  /\ \E flush \in {"nil", "export failed"} :
       LET f == proc.deferred[Len(proc.deferred)]
           rest == SubSeq(proc.deferred, 1, Len(proc.deferred) - 1)
           result == IF f = "tracerProvider.Shutdown"
                       THEN Shutdown(proc.provider, flush) ELSE "nil"
       IN  proc' = [proc EXCEPT
                      !.deferred = rest,
                      !.ran = Append(@, <<f, result>>),
                      !.db = IF f = "db.Close" THEN "closed" ELSE @,
                      !.provider = IF f = "tracerProvider.Shutdown" /\ @ = "sdk"
                                     THEN "stopped" ELSE @,
                      !.phase = IF rest = << >> THEN "exited" ELSE @]
  /\ UNCHANGED <<tracingEnabled, chainState, requestsTotal, requestDuration, handler>>

\* ------------------------------------------------------ business handlers
\* The routes of the api subrouter whose handlers start spans.
Routes == {"/api/weather/{location}", "/api/weather", "/api/quote", "/api/dashboard"}

\* Values of the {location} path variable.
Locations == {"London", "Paris"}

\* r.URL.Path of a request the router matched to route.
URLPath(route, location) ==
  IF route = "/api/weather/{location}" THEN "/api/weather/" \o location ELSE route

\* How a call of an external client ends: nil, an error of the HTTP round
\* trip, a status other than 200, or a panic.
ClientOutcomes == {"nil", "transport", "status", "panic"}

\* How a call of db ends.
DBOutcomes == {"nil", "error", "panic"}

\* The span of the no-op tracer: no ids, and nothing changes it.
InertSpan ==
  [trace_id |-> Empty, span_id |-> Empty, ended |-> FALSE, errors |-> 0,
   attributes |-> 0]

\* Span.IsRecording: an SDK span that has not ended.
IsRecording(sp) == sp.span_id # Empty /\ ~sp.ended

\* tracerProvider.Tracer().Start(ctx, name): a recording child span of the
\* SDK tracer, the inert span of the no-op tracer.
TracerStart(sdk, h, name) ==
  [h EXCEPT
     !.spans = (name :> (IF sdk
                           THEN [trace_id |-> OTelTraceID(1),
                                 span_id |-> [kind |-> "otel", n |-> Len(h.calls) + 1,
                                              len |-> 16],
                                 ended |-> FALSE, errors |-> 0, attributes |-> 0]
                           ELSE InertSpan)) @@ @,
     !.calls = Append(@, <<"Start", name>>)]

\* span.SetAttributes: kept by a recording span only.
SetAttributes(h, name) ==
  [h EXCEPT !.spans[name] = IF IsRecording(@) THEN [@ EXCEPT !.attributes = @ + 1] ELSE @,
            !.calls = Append(@, <<"SetAttributes", name>>)]

\* span.RecordError: kept by a recording span only.
RecordError(h, name) ==
  [h EXCEPT !.spans[name] = IF IsRecording(@) THEN [@ EXCEPT !.errors = @ + 1] ELSE @,
            !.calls = Append(@, <<"RecordError", name>>)]

\* span.End: ends a recording span.
End(h, name) ==
  [h EXCEPT !.spans[name] = IF IsRecording(@) THEN [@ EXCEPT !.ended = TRUE] ELSE @,
            !.calls = Append(@, <<"End", name>>)]

\* defer span.End()
Defer(h, name) == [h EXCEPT !.deferred = Append(@, name)]

\* The deferred span.End() calls of the handler, last first.
RECURSIVE RunDeferredEnds(_)
RunDeferredEnds(h) ==
  IF h.deferred = << >> THEN h
  ELSE RunDeferredEnds(
         [End(h, h.deferred[Len(h.deferred)])
            EXCEPT !.deferred = SubSeq(@, 1, Len(@) - 1)])

\* The handler returns, or a panic leaves it: its deferred calls run.
Returns(h) == [RunDeferredEnds(h) EXCEPT !.at = "left", !.exit = "returned"]
Panics(h) == [RunDeferredEnds(h) EXCEPT !.at = "left", !.exit = "panicked"]

\* WeatherClient.GetWeather / QuoteClient.GetRandomQuote on the span of ctx:
\* attributes are set first, and a failed round trip is recorded on the span;
\* a status other than 200 is returned as an error without being recorded.
ClientGet(h, name, outcome) ==
  IF outcome = "transport" THEN RecordError(SetAttributes(h, name), name)
  ELSE SetAttributes(h, name)

\* A db call enclosed in its own span by plain statements: Start, the call,
\* RecordError on an error, End.
DBRegion(sdk, h, name, outcome) ==
  LET started == TracerStart(sdk, h, name)
  IN  IF outcome = "panic" THEN Panics(started)
      ELSE IF outcome = "error" THEN End(RecordError(started, name), name)
      ELSE End(started, name)

\* A client call of dashboardHandler enclosed in its own span by plain
\* statements.
ClientRegion(sdk, h, name, outcome) ==
  LET called == ClientGet(TracerStart(sdk, h, name), name, outcome)
  IN  IF outcome = "panic" THEN Panics(called)
      ELSE IF outcome # "nil" THEN End(RecordError(called, name), name)
      ELSE End(called, name)

Sdk == proc.provider = "sdk"
Serving == proc.phase \in {"serving", "shutdown"}
Step(h, next) == IF h.at = "left" THEN h ELSE [h EXCEPT !.at = next]

\* The router hands a request to one of the handlers.
HandlerEnter ==
  /\ proc.phase = "serving"
  /\ handler = NoHandler
  /\ proc.served < MaxServed
  /\ \E route \in Routes, location \in Locations :
       /\ route # "/api/weather/{location}" => location = "London"
       /\ handler' = [NoHandler EXCEPT !.route = route, !.location = location,
                                       !.at = "start", !.exit = "running"]
  /\ UNCHANGED <<tracingEnabled, chainState, requestsTotal, requestDuration, proc>>

\* weatherHandler: the fetch_weather span is started and its End deferred.
WeatherStart ==
  /\ Serving
  /\ handler.route \in {"/api/weather/{location}", "/api/weather"}
  /\ handler.at = "start"
  /\ handler' = [Defer(TracerStart(Sdk, handler, "fetch_weather"), "fetch_weather")
                   EXCEPT !.at = "fetch"]
  /\ UNCHANGED <<tracingEnabled, chainState, requestsTotal, requestDuration, proc>>

\* weatherHandler: GetWeather; an error is recorded and answered with 500.
WeatherFetch ==
  /\ Serving
  /\ handler.route \in {"/api/weather/{location}", "/api/weather"}
  /\ handler.at = "fetch"
  /\ \E outcome \in ClientOutcomes :
       LET called == ClientGet(handler, "fetch_weather", outcome)
       IN  handler' =
             IF outcome = "panic" THEN Panics(called)
             ELSE IF outcome # "nil"
               THEN Returns([RecordError(called, "fetch_weather")
                               EXCEPT !.status = StatusInternalServerError])
             ELSE [called EXCEPT !.at = IF proc.db = "open" THEN "cache" ELSE "respond"]
  /\ UNCHANGED <<tracingEnabled, chainState, requestsTotal, requestDuration, proc>>

\* weatherHandler, db != nil: SaveWeatherCache inside the cache_weather_db span.
WeatherCache ==
  /\ Serving
  /\ handler.route \in {"/api/weather/{location}", "/api/weather"}
  /\ handler.at = "cache"
  /\ \E outcome \in DBOutcomes :
       handler' = Step(DBRegion(Sdk, handler, "cache_weather_db", outcome), "respond")
  /\ UNCHANGED <<tracingEnabled, chainState, requestsTotal, requestDuration, proc>>

\* weatherHandler: the response is encoded and the handler returns.
WeatherRespond ==
  /\ Serving
  /\ handler.route \in {"/api/weather/{location}", "/api/weather"}
  /\ handler.at = "respond"
  /\ handler' = Returns([handler EXCEPT !.status = StatusOK])
  /\ UNCHANGED <<tracingEnabled, chainState, requestsTotal, requestDuration, proc>>

\* quoteHandler: Start fetch_quote, GetRandomQuote, span.End(); then, on an
\* error, span.RecordError and the 500 answer.
QuoteFetch ==
  /\ Serving
  /\ handler.route = "/api/quote"
  /\ handler.at = "start"
  /\ \E outcome \in ClientOutcomes :
       LET called == ClientGet(TracerStart(Sdk, handler, "fetch_quote"),
                               "fetch_quote", outcome)
       IN  handler' =
             IF outcome = "panic" THEN Panics(called)
             ELSE IF outcome # "nil"
               THEN Returns([RecordError(End(called, "fetch_quote"), "fetch_quote")
                               EXCEPT !.status = StatusInternalServerError])
             ELSE [End(called, "fetch_quote")
                     EXCEPT !.at = IF proc.db = "open" THEN "save" ELSE "respond"]
  /\ UNCHANGED <<tracingEnabled, chainState, requestsTotal, requestDuration, proc>>

\* quoteHandler, db != nil: SaveQuote inside the save_quote_db span.
QuoteSave ==
  /\ Serving
  /\ handler.route = "/api/quote"
  /\ handler.at = "save"
  /\ \E outcome \in DBOutcomes :
       handler' = Step(DBRegion(Sdk, handler, "save_quote_db", outcome), "respond")
  /\ UNCHANGED <<tracingEnabled, chainState, requestsTotal, requestDuration, proc>>

\* quoteHandler: the response is encoded and the handler returns.
QuoteRespond ==
  /\ Serving
  /\ handler.route = "/api/quote"
  /\ handler.at = "respond"
  /\ handler' = Returns([handler EXCEPT !.status = StatusOK])
  /\ UNCHANGED <<tracingEnabled, chainState, requestsTotal, requestDuration, proc>>

\* dashboardHandler: the build_dashboard span is started and its End deferred.
DashboardStart ==
  /\ Serving
  /\ handler.route = "/api/dashboard"
  /\ handler.at = "start"
  /\ handler' = [Defer(TracerStart(Sdk, handler, "build_dashboard"), "build_dashboard")
                   EXCEPT !.at = "weather"]
  /\ UNCHANGED <<tracingEnabled, chainState, requestsTotal, requestDuration, proc>>

\* dashboardHandler, child span 1: GetWeather.
DashboardWeather ==
  /\ Serving
  /\ handler.route = "/api/dashboard"
  /\ handler.at = "weather"
  /\ \E outcome \in ClientOutcomes :
       handler' = Step(ClientRegion(Sdk, handler, "dashboard.fetch_weather", outcome),
                       "quote")
  /\ UNCHANGED <<tracingEnabled, chainState, requestsTotal, requestDuration, proc>>

\* dashboardHandler, child span 2: GetRandomQuote.
DashboardQuote ==
  /\ Serving
  /\ handler.route = "/api/dashboard"
  /\ handler.at = "quote"
  /\ \E outcome \in ClientOutcomes :
       handler' = Step(ClientRegion(Sdk, handler, "dashboard.fetch_quote", outcome),
                       IF proc.db = "open" THEN "users" ELSE "respond")
  /\ UNCHANGED <<tracingEnabled, chainState, requestsTotal, requestDuration, proc>>

\* dashboardHandler, db != nil, child span 3: GetUsers.
DashboardUsers ==
  /\ Serving
  /\ handler.route = "/api/dashboard"
  /\ handler.at = "users"
  /\ \E outcome \in DBOutcomes :
       handler' = Step(DBRegion(Sdk, handler, "dashboard.get_users", outcome), "recent")
  /\ UNCHANGED <<tracingEnabled, chainState, requestsTotal, requestDuration, proc>>

\* dashboardHandler, db != nil, child span 4: GetQuotes.
DashboardRecentQuotes ==
  /\ Serving
  /\ handler.route = "/api/dashboard"
  /\ handler.at = "recent"
  /\ \E outcome \in DBOutcomes :
       handler' = Step(DBRegion(Sdk, handler, "dashboard.get_recent_quotes", outcome),
                       "respond")
  /\ UNCHANGED <<tracingEnabled, chainState, requestsTotal, requestDuration, proc>>

\* dashboardHandler: the result is encoded and the handler returns.
DashboardRespond ==
  /\ Serving
  /\ handler.route = "/api/dashboard"
  /\ handler.at = "respond"
  /\ handler' = Returns([handler EXCEPT !.status = StatusOK])
  /\ UNCHANGED <<tracingEnabled, chainState, requestsTotal, requestDuration, proc>>

\* The handler has left: MetricsMiddleware counts a request whose handler
\* returned, under the method, r.URL.Path and the formatted status code; a
\* panic passes it by on the way to Recovery.
HandlerLeave ==
  /\ Serving
  /\ handler.at = "left"
  /\ IF handler.exit = "returned"
       THEN /\ requestsTotal' = IncVec(requestsTotal,
                 <<"GET", URLPath(handler.route, handler.location),
                   FormatStatus(handler.status)>>)
            /\ requestDuration' = IncVec(requestDuration,
                 <<"GET", URLPath(handler.route, handler.location)>>)
       ELSE UNCHANGED <<requestsTotal, requestDuration>>
  /\ proc' = [proc EXCEPT !.served = @ + 1]
  /\ handler' = NoHandler
  /\ UNCHANGED <<tracingEnabled, chainState>>

\* ----------------------------------------------------- the running process
InitMain ==
  /\ tracingEnabled \in BOOLEAN
  /\ chain = "TracedLogging"
  /\ cfgLevel = "info"
  /\ InitServing

NextMain ==
  \/ PackageInit
  \/ MainInitTracer
  \/ MainConnectDB
  \/ NewMetrics
  \/ MainServe
  \/ ListenFails
  \/ Signal
  \/ SrvShutdown
  \/ SrvShutdownDeadline
  \/ RunDeferred
  \/ HandlerEnter
  \/ WeatherStart
  \/ WeatherFetch
  \/ WeatherCache
  \/ WeatherRespond
  \/ QuoteFetch
  \/ QuoteSave
  \/ QuoteRespond
  \/ DashboardStart
  \/ DashboardWeather
  \/ DashboardQuote
  \/ DashboardUsers
  \/ DashboardRecentQuotes
  \/ DashboardRespond
  \/ HandlerLeave

SpecMain == InitMain /\ [][NextMain]_vars

\* ------------------------------------------------------------------ claims
\* What the formulas below read off a state.
PastResolver(r) == pc[r] \notin {"idle", "recovery", "logpre"}
InsideMetrics(r) == pc[r] \in {"handler", "metricspost", "metricsdefer"}
Panicked(r) == panicVal[r] # NoPanic
Recovered(r) == Panicked(r) /\ pc[r] \in {"otelexit", "done"}
ReturnedNormally(r) == ~Panicked(r) /\ pc[r] \in {"recoverydefer", "otelexit", "done"}
Passes(level) == LevelNum(level) >= LevelNum(parseLevel(cfgLevel))
EventsOf(r, msg) == {i \in DOMAIN logs[r] : logs[r][i].msg = msg}
\* Every value a written record carries under a key: the context's occurrence
\* and the caller's.
EventValues(e, key) ==
  {e.ctx[i][2] : i \in {j \in DOMAIN e.ctx : e.ctx[j][1] = key}}
    \cup (IF key \in DOMAIN e.fields THEN {e.fields[key]} ELSE {})
\* What Recovery owes a request whose handler panicked before any write,
\* leaving the log aside: one response, 500 with the fixed text, and one
\* count per recovered panic.
RecoveredCleanly(r) ==
  /\ resp[r].wroteHeader
  /\ resp[r].status = StatusInternalServerError
  /\ resp[r].body = <<"Internal Server Error">>
  /\ resp[r].superfluous = 0
  /\ panicRecoveries = Cardinality({q \in Requests : Recovered(q)})
OnePanicEvent(r) ==
  /\ Cardinality({i \in DOMAIN logs[r] : logs[r][i].level = "error"}) = 1
  /\ \A i \in EventsOf(r, "Panic recovered") :
       /\ logs[r][i].level = "error"
       /\ EventValues(logs[r][i], "panic") = {panicVal[r]}
       /\ "stacktrace" \in DOMAIN logs[r][i].fields

\* C1 (as stated): a handler that panics before writing anything gets one
\* 500 response, one PanicRecoveries increment and exactly one error-level
\* event carrying the panic value and the stack trace.
C1_AsStated ==
  \A r \in Requests :
    (Recovered(r) /\ hops[r] = 0) => (RecoveredCleanly(r) /\ OnePanicEvent(r))

\* C1 (amended): the same, the error-level event being written exactly once
\* unless LOG_LEVEL is "fatal", in which case none is written.
C1_PanicRecoveredOnce ==
  \A r \in Requests :
    (Recovered(r) /\ hops[r] = 0) =>
      /\ RecoveredCleanly(r)
      /\ IF parseLevel(cfgLevel) = "fatal" THEN logs[r] = << >> ELSE OnePanicEvent(r)

C1_Witness ==
  \E r \in Requests :
    /\ Recovered(r) /\ hops[r] = 0 /\ pc[r] = "done"
    /\ Len(logs[r]) = 1
    /\ \E q \in Requests : q # r /\ Recovered(q)

\* C2: when the handler panics after it has sent a status line or body,
\* Recovery makes no second WriteHeader or body write and logs a
\* write-conflict warning instead.
C2_NoDoubleWrite ==
  \A r \in Requests :
    (Recovered(r) /\ hops[r] > 0) =>
      /\ resp[r].superfluous = 0
      /\ \A i \in DOMAIN resp[r].body : resp[r].body[i] # "Internal Server Error"
      /\ Passes("warn") => \E i \in DOMAIN logs[r] : logs[r][i].level = "warn"

\* C3: RequestsInFlight equals the number of requests between
\* MetricsMiddleware's Inc and its deferred Dec, is never negative, and is
\* back at its value from before the requests once they have all completed,
\* panics included.
C3_InFlightGauge ==
  /\ inFlight = Cardinality({r \in Requests : InsideMetrics(r)})
  /\ inFlight >= 0
  /\ (\A r \in Requests : pc[r] \in {"idle", "done"}) => inFlight = 0

C3_Witness ==
  \E r, q \in Requests :
    /\ Recovered(r)
    /\ pc[q] = "handler"
    /\ inFlight = 1

\* C4: in the wired chain the "Panic recovered" event of a request carries as
\* request_id and trace_id the X-Request-ID and X-Trace-ID of its response.
C4_PanicEventCorrelated ==
  \A r \in Requests :
    (chain = "TracedLogging" /\ Recovered(r) /\ pc[r] = "done") =>
      \A i \in EventsOf(r, "Panic recovered") :
        /\ EventValues(logs[r][i], "request_id") = {resp[r].sent.XRequestID}
        /\ EventValues(logs[r][i], "trace_id") = {resp[r].sent.XTraceID}

\* C5: for a request whose handler returned normally, the X-Request-ID of the
\* response equals the request_id of its "HTTP request completed" event, which
\* is written once when info passes the level; both are "req-42" when that is
\* the inbound X-Request-ID.
C5_RequestIDMatchesLog ==
  \A r \in Requests :
    (ReturnedNormally(r) /\ pc[r] = "done") =>
      /\ Cardinality(EventsOf(r, "HTTP request completed")) = IF Passes("info") THEN 1 ELSE 0
      /\ \A i \in EventsOf(r, "HTTP request completed") :
           EventValues(logs[r][i], "request_id") = {resp[r].sent.XRequestID}
      /\ inbound[r].XRequestID = Req42 => resp[r].sent.XRequestID = Req42

C5_Witness ==
  \E r \in Requests :
    /\ ReturnedNormally(r) /\ pc[r] = "done"
    /\ inbound[r].XRequestID = Req42
    /\ \E i \in EventsOf(r, "HTTP request completed") :
         EventValues(logs[r][i], "request_id") = {Req42}

\* C6: through TracedLogging the X-Request-ID and X-Trace-ID response headers
\* equal the request id and trace id of the correlation context; with no
\* inbound X-Trace-ID and tracing disabled the X-Trace-ID header is a freshly
\* generated non-empty value.
C6_HeadersMatchContext ==
  \A r \in Requests :
    (chain = "TracedLogging" /\ PastResolver(r)) =>
      /\ hdrs[r].XRequestID = GetRequestID(lctx[r])
      /\ hdrs[r].XTraceID = GetTraceID(lctx[r])
      /\ (inbound[r].XTraceID = Empty /\ ~tracingEnabled) =>
           (hdrs[r].XTraceID.kind = "uuid" /\ hdrs[r].XTraceID.len > 0)

\* A 16 character prefix of a uuid drawn while serving r.
FreshTraceID(id, r) ==
  id.kind = "uuid" /\ id.len = 16 /\ \E k \in 1..UuidDraws : id = Prefix(UuidString(r, k), 16)

\* C7 (as stated): in both logging middlewares the resolved trace id is the
\* inbound X-Trace-ID when that is non-empty, also with an active span; the
\* span's trace id when only the header is empty; a fresh id when both are
\* absent.
C7_AsStated ==
  \A r \in Requests :
    PastResolver(r) =>
      LET tid == GetTraceID(lctx[r])
      IN  CASE inbound[r].XTraceID # Empty -> tid = inbound[r].XTraceID
            [] inbound[r].XTraceID = Empty /\ span[r].trace_id # Empty ->
                 tid = span[r].trace_id
            [] OTHER -> FreshTraceID(tid, r)

\* C7 (amended): TracedLogging resolves the trace id to the span's trace id
\* whenever the span has one, to the inbound X-Trace-ID only when the span has
\* none, and to a fresh id when both are absent; Logging never reads the span:
\* the inbound X-Trace-ID when non-empty, a fresh id otherwise.
C7_TraceIDPrecedence ==
  \A r \in Requests :
    PastResolver(r) =>
      LET tid == GetTraceID(lctx[r])
      IN  CASE chain = "TracedLogging" /\ span[r].trace_id # Empty ->
                 tid = span[r].trace_id
            [] chain = "Logging" /\ inbound[r].XTraceID = Empty -> FreshTraceID(tid, r)
            [] inbound[r].XTraceID # Empty -> tid = inbound[r].XTraceID
            [] OTHER -> FreshTraceID(tid, r)

C7_Witness ==
  \E r \in Requests :
    /\ PastResolver(r) /\ chain = "TracedLogging"
    /\ inbound[r].XTraceID = InTrace
    /\ span[r].trace_id = OTelTraceID(r)
    /\ GetTraceID(lctx[r]) = OTelTraceID(r)

\* C8: the context ExtractTraceContext yields has the given request id whenever
\* that is non-empty, whatever its format, and a freshly generated non-empty
\* one when it is empty.
C8_RequestIDResolved ==
  \A r \in Requests :
    PastResolver(r) =>
      IF inbound[r].XRequestID # Empty
        THEN GetRequestID(lctx[r]) = inbound[r].XRequestID
        ELSE /\ GetRequestID(lctx[r]).kind = "uuid"
             /\ GetRequestID(lctx[r]).len > 0
             /\ \E k \in 1..UuidDraws : GetRequestID(lctx[r]) = UuidString(r, k)
             /\ \A q \in Requests \ {r} : GetRequestID(lctx[r]) # GetRequestID(lctx[q])

C8_Witness ==
  \E r, q \in Requests :
    /\ PastResolver(r) /\ PastResolver(q)
    /\ inbound[r].XRequestID = Malformed /\ GetRequestID(lctx[r]) = Malformed
    /\ inbound[q].XRequestID = Empty /\ GetRequestID(lctx[q]).kind = "uuid"

\* C9: in TracedLogging the span id of the context is the OTel span id when
\* the tracer assigned one, and otherwise a non-empty id generated for this
\* hop, never the inbound X-Span-ID.
C9_SpanIDResolved ==
  \A r \in Requests :
    (chain = "TracedLogging" /\ PastResolver(r)) =>
      IF span[r].span_id # Empty
        THEN GetSpanID(lctx[r]) = span[r].span_id
        ELSE /\ GetSpanID(lctx[r]).kind = "uuid"
             /\ GetSpanID(lctx[r]).len > 0
             /\ \E k \in 1..UuidDraws : GetSpanID(lctx[r]) = Prefix(UuidString(r, k), 8)
             /\ GetSpanID(lctx[r]) # inbound[r].XSpanID

C9_Witness ==
  \E r \in Requests :
    /\ chain = "TracedLogging" /\ PastResolver(r)
    /\ span[r].span_id = OTelSpanID(r)
    /\ GetSpanID(lctx[r]) = OTelSpanID(r)
    /\ inbound[r].XSpanID = InSpan

\* C10: the X-Span-ID response header is set exactly when TracedLogging ran
\* with a span id assigned by the tracer (tracing enabled), and then equals the
\* span id of the context; the Logging middleware never sets it.
C10_SpanHeader ==
  \A r \in Requests :
    /\ (hdrs[r].XSpanID # Unset) <=>
         (chain = "TracedLogging" /\ PastResolver(r) /\ tracingEnabled)
    /\ pc[r] # "idle" => (tracingEnabled <=> span[r].span_id # Empty)
    /\ hdrs[r].XSpanID # Unset =>
         (hdrs[r].XSpanID = GetSpanID(lctx[r]) /\ hdrs[r].XSpanID # Empty)
    /\ pc[r] = "done" => resp[r].sent.XSpanID = hdrs[r].XSpanID

C10_Witness ==
  \E r, q \in Requests :
    /\ pc[r] = "done" /\ resp[r].sent.XSpanID = OTelSpanID(r)
    /\ Panicked(r)
    /\ pc[q] = "done" /\ resp[q].sent.XSpanID = OTelSpanID(q)

\* The sum of a metric vector's series.
RECURSIVE SumOver(_, _)
SumOver(vec, S) ==
  IF S = {} THEN 0
  ELSE LET lv == CHOOSE x \in S : TRUE IN vec[lv] + SumOver(vec, S \ {lv})
Total(vec) == SumOver(vec, DOMAIN vec)
AllDone == \A r \in Requests : pc[r] = "done"

\* C11: every request, one with a recovered panic included, has on return one
\* RequestsTotal increment labelled with its final response status (500 for a
\* recovered panic), one RequestDuration observation and one "HTTP request
\* completed" event (when info passes the level).
C11_RecordedOnReturn ==
  AllDone =>
    /\ Total(requestsTotal) = NumRequests
    /\ Total(requestDuration) = NumRequests
    /\ \A r \in Requests :
         /\ <<inbound[r].method, inbound[r].path, FormatStatus(resp[r].status)>>
              \in DOMAIN requestsTotal
         /\ Passes("info") => Cardinality(EventsOf(r, "HTTP request completed")) = 1

PanicRaisedIn(r, where) ==
  \E i \in DOMAIN life[r] : life[r][i] = where

\* C12: a panic raised in the business handler, in MetricsMiddleware or in
\* TracedLogging never passes Recovery: Recovery returns normally, having
\* answered the request, and the shared state stays usable (gauge and counter
\* consistent, every unfinished request can still be served).
C12_PanicContained ==
  \A r \in Requests :
    /\ pc[r] \in {"otelexit", "done"} => ~unwinding[r]
    /\ Recovered(r) =>
         /\ resp[r].wroteHeader
         /\ resp[r].body # << >>
         /\ resp[r].body[Len(resp[r].body)] = "Internal Server Error"
    /\ inFlight = Cardinality({q \in Requests : InsideMetrics(q)})
    /\ panicRecoveries = Cardinality({q \in Requests : Recovered(q)})
    /\ pc[r] # "done" => ENABLED (NextPanics /\ pc'[r] # pc[r])
C12_Witness ==
  \E r, q \in Requests :
    /\ Recovered(r) /\ pc[r] = "done"
    /\ PanicRaisedIn(r, "panic in TracedLogging")
    /\ ~Panicked(q) /\ pc[q] = "done"
    /\ EventsOf(q, "HTTP request completed") # {}
    /\ Total(requestsTotal) = 1

\* A downstream hop fed the response headers of request r as its inbound
\* headers: r.Header.Get gives "" for a header the upstream never set. The hop
\* runs Logging or TracedLogging, with a server span of its own when its
\* tracing is enabled.
DownHop == NumRequests + 1
HeaderGet(v) == IF v = Unset THEN Empty ELSE v
Forwarded(r) ==
  [XRequestID |-> HeaderGet(resp[r].sent.XRequestID),
   XTraceID |-> HeaderGet(resp[r].sent.XTraceID),
   XSpanID |-> HeaderGet(resp[r].sent.XSpanID),
   method |-> "GET", path |-> "/api/hello"]
DownSpan(enabled) ==
  IF enabled
    THEN [trace_id |-> OTelTraceID(DownHop), span_id |-> OTelSpanID(DownHop),
          attrs |-> FALSE, ended |-> FALSE]
    ELSE NoSpan
DownContext(r, mw, enabled) ==
  IF mw = "TracedLogging"
    THEN TracedContext(DownSpan(enabled), Forwarded(r), DownHop)
    ELSE LoggingContext(Forwarded(r), DownHop)

\* C13: the X-Request-ID and X-Trace-ID response headers of a request, fed as
\* inbound headers to the resolver of a downstream hop (Logging or
\* TracedLogging, tracing enabled or not), give the request id and trace id of
\* the upstream context.
C13_RoundTrip ==
  \A r \in Requests :
    pc[r] = "done" =>
      \A mw \in {"Logging", "TracedLogging"}, enabled \in BOOLEAN :
        /\ GetRequestID(DownContext(r, mw, enabled)) = GetRequestID(lctx[r])
        /\ GetTraceID(DownContext(r, mw, enabled)) = GetTraceID(lctx[r])

NoInboundIDs(r) == inbound[r].XRequestID = Empty /\ inbound[r].XTraceID = Empty

\* C14: with tracing enabled and no inbound X-Request-ID / X-Trace-ID header,
\* the trace_id of TracedLogging's completion event, of the context and of the
\* X-Trace-ID response header is the trace id of the request's OTel span.
C14_TraceIDIsSpanTraceID ==
  \A r \in Requests :
    (chain = "TracedLogging" /\ tracingEnabled /\ PastResolver(r) /\ NoInboundIDs(r)) =>
      /\ span[r].trace_id = OTelTraceID(r)
      /\ GetTraceID(lctx[r]) = span[r].trace_id
      /\ hdrs[r].XTraceID = span[r].trace_id
      /\ resp[r].wroteHeader => resp[r].sent.XTraceID = span[r].trace_id
      /\ \A i \in EventsOf(r, "HTTP request completed") :
           EventValues(logs[r][i], "trace_id") = {span[r].trace_id}
C14_Witness ==
  \E r \in Requests :
    /\ chain = "TracedLogging" /\ tracingEnabled /\ NoInboundIDs(r)
    /\ pc[r] = "done"
    /\ resp[r].sent.XTraceID = OTelTraceID(r)
    /\ EventsOf(r, "HTTP request completed") # {}

\* C15: in every event written through Logger.WithFields(ctx, fields), a
\* key supplied by the context and by the caller carries the context's value
\* only: the caller's value neither replaces it nor is a second occurrence.
C15_ContextWins ==
  \A r \in Requests :
    \A i \in DOMAIN logs[r] :
      \A j \in DOMAIN logs[r][i].ctx :
        EventValues(logs[r][i], logs[r][i].ctx[j][1]) = {logs[r][i].ctx[j][2]}

\* m1(m2(...mn(final))), and what a call of it runs.
RECURSIVE Nested(_)
Nested(ms) == IF ms = << >> THEN FinalHandler ELSE Apply(Head(ms), Nested(Tail(ms)))
ExpectedRun(ms) ==
  [i \in 1..Len(ms) |-> <<"pre", ms[i]>>]
    \o << <<"run", "final">> >>
    \o [i \in 1..Len(ms) |-> <<"post", ms[Len(ms) + 1 - i]>>]

\* C16: Chain(m1, ..., mn)(final) is m1(m2(...mn(final))): a call runs the
\* code before next.ServeHTTP of m1, then m2, ..., then mn, then final, then
\* the code after it in reverse order; Chain of no middleware is final itself.
C16_ChainOrder ==
  composer.cpc # "idle" =>
    /\ composer.composed = Nested(composer.middlewares)
    /\ composer.middlewares = << >> => composer.composed = FinalHandler
    /\ (composer.cpc = "return" /\ composer.depth = 0) =>
         composer.ctrace = ExpectedRun(composer.middlewares)
C16_Witness ==
  /\ composer.cpc = "return" /\ composer.depth = 0
  /\ Len(composer.middlewares) >= 2
  /\ composer.middlewares[1] # composer.middlewares[2]
  /\ Len(composer.ctrace) = 2 * Len(composer.middlewares) + 1

\* The lifecycle of a request through the wired chain that returns normally.
Lifecycle ==
  <<"span start", "ids resolved", "headers stamped", "in-flight inc", "handler",
    "count recorded", "duration recorded", "in-flight dec", "span attributes",
    "completion log", "span end">>
IsPrefix(s, t) == Len(s) <= Len(t) /\ \A i \in DOMAIN s : s[i] = t[i]

\* C17: a request through the wired chain that returns normally takes its
\* lifecycle steps in one order: span start, identifier resolution and header
\* stamping, in-flight increment, handler, count and duration recorded,
\* in-flight decrement, span attributes, completion log, span end; whatever
\* the other requests do meanwhile.
C17_LifecycleOrder ==
  \A r \in Requests :
    (chain = "TracedLogging" /\ ~Panicked(r)) =>
      /\ IsPrefix(life[r], Lifecycle)
      /\ pc[r] = "done" => life[r] = Lifecycle
C17_Witness ==
  \E r, q \in Requests :
    /\ chain = "TracedLogging"
    /\ pc[r] = "done" /\ ~Panicked(r) /\ life[r] = Lifecycle
    /\ pc[q] = "handler" /\ Len(life[q]) = 4

HandlerReturnedThroughMetrics(r) ==
  ~Panicked(r) /\ pc[r] \in {"metricsdefer", "logpost", "recoverydefer", "otelexit", "done"}

\* C18: under every interleaving of the requests on the one Metrics, no update
\* is lost: the RequestsTotal series sum to the number of requests whose
\* handler returned normally through MetricsMiddleware and PanicRecoveries is
\* the number of recovered panics, at every moment and so once all requests
\* are done; PanicRecoveries moves with Recovery's recoveries and nothing else.
C18_NoLostUpdate ==
  /\ Total(requestsTotal) =
       Cardinality({r \in Requests : HandlerReturnedThroughMetrics(r)})
  /\ Total(requestDuration) = Total(requestsTotal)
  /\ panicRecoveries = Cardinality({r \in Requests : Recovered(r)})
  /\ AllDone =>
       Total(requestsTotal) + panicRecoveries = NumRequests
C18_Witness ==
  /\ AllDone
  /\ \E lv \in DOMAIN requestsTotal : requestsTotal[lv] >= 2
  /\ \E lv \in DOMAIN requestDuration : requestDuration[lv] >= 2

\* The identifiers request r shows: in its context, in its response headers
\* (as set and as sent) and in its log events.
IsID(v) == v # Empty /\ v # Unset
IDKeys == {"request_id", "trace_id", "span_id"}
ContextIDs(r) == {lctx[r].request_id, lctx[r].trace_id, lctx[r].span_id}
HeaderIDs(r) ==
  {hdrs[r].XRequestID, hdrs[r].XTraceID, hdrs[r].XSpanID,
   resp[r].sent.XRequestID, resp[r].sent.XTraceID, resp[r].sent.XSpanID}
LogIDs(r) ==
  UNION {EventValues(logs[r][i], key) : i \in DOMAIN logs[r], key \in IDKeys}
IDsSeen(r) == {v \in ContextIDs(r) \cup HeaderIDs(r) \cup LogIDs(r) : IsID(v)}
\* The identifiers resolved for request r: those of its context and span.
IDsResolved(r) == ContextIDs(r) \cup {span[r].trace_id, span[r].span_id}

\* C19: the correlation context is per request: the identifiers in a
\* request's context, response headers and log events are those resolved for
\* it, and none of them (an inbound header value aside, which two requests
\* may both carry) is an identifier of another request.
C19_ContextIsolated ==
  \E seen \in {[r \in Requests |-> IDsSeen(r)]} :
    \A r \in Requests :
      /\ seen[r] \subseteq IDsResolved(r)
      /\ \A q \in Requests \ {r} :
           \A v \in seen[r] \cap seen[q] : v.kind = "hdr"
C19_Witness ==
  \E r, q \in Requests :
    /\ r # q
    /\ pc[r] = "handler" /\ ContextIDs(r) \cap IDsSeen(r) # {}
    /\ pc[q] = "done" /\ LogIDs(q) \cap IDsSeen(q) # {}
    /\ HeaderIDs(q) \cap IDsSeen(q) # {}

\* What a response must not show: a panic value or a stack trace.
PanicDetails == PanicValues \cup {StackTrace(r) : r \in Requests}
BodyChunks(r) == {resp[r].body[i] : i \in DOMAIN resp[r].body}

\* C20: what Recovery answers to a recovered panic does not depend on the
\* panic: for any two panic values and stacks the status and the body are the
\* same, 500 and "Internal Server Error" (after whatever the handler had
\* already sent), and no response carries a panic value or a stack trace.
C20_FixedPanicResponse ==
  \A r \in Requests :
    /\ BodyChunks(r) \cap PanicDetails = {}
    /\ Recovered(r) =>
         /\ resp[r].body[Len(resp[r].body)] = "Internal Server Error"
         /\ hops[r] = 0 =>
              /\ resp[r].status = StatusInternalServerError
              /\ resp[r].body = <<"Internal Server Error">>
         /\ \A q \in Requests :
              (Recovered(q) /\ hops[q] = 0 /\ hops[r] = 0) =>
                /\ resp[q].status = resp[r].status
                /\ resp[q].body = resp[r].body
C20_Witness ==
  \E r, q \in Requests :
    /\ Recovered(r) /\ Recovered(q)
    /\ panicVal[r] # panicVal[q]
    /\ hops[r] = 0 /\ hops[q] = 0
    /\ resp[r].status = StatusInternalServerError
    /\ resp[r].body = resp[q].body

ResolvedWithoutTrace(r) ==
  PastResolver(r) /\ ~tracingEnabled /\ inbound[r].XTraceID = Empty

\* C24: for a request with no inbound X-Trace-ID header while tracing is
\* disabled the resolver stores a non-empty generated trace id in the context,
\* and the trace ids generated for two such requests, concurrent ones
\* included, differ.
C24_GeneratedTraceIDsDistinct ==
  \A r \in Requests :
    ResolvedWithoutTrace(r) =>
      /\ GetTraceID(lctx[r]) # Empty
      /\ GetTraceID(lctx[r]).kind = "uuid"
      /\ GetTraceID(lctx[r]).len > 0
      /\ \A q \in Requests \ {r} :
           ResolvedWithoutTrace(q) => GetTraceID(lctx[q]) # GetTraceID(lctx[r])
C24_Witness ==
  \E r, q \in Requests :
    /\ r # q
    /\ ResolvedWithoutTrace(r) /\ pc[r] = "handler"
    /\ ResolvedWithoutTrace(q) /\ pc[q] = "handler"
    /\ GetTraceID(lctx[r]).kind = "uuid" /\ GetTraceID(lctx[q]).kind = "uuid"

KnownLevels == {"debug", "info", "warn", "error", "fatal"}
PanicEventWritten(r) == EventsOf(r, "Panic recovered") # {}
CompletionEventWritten(r) == EventsOf(r, "HTTP request completed") # {}

\* C29: parseLevel maps the five known names to their level and any other
\* string to info, and an event is written only at or above the configured
\* level: the error-level "Panic recovered" event is written for every
\* LOG_LEVEL but "fatal", the info-level completion event only for "debug",
\* "info" and names parseLevel does not know.
C29_LevelFilter ==
  /\ parseLevel(cfgLevel) = (IF cfgLevel \in KnownLevels THEN cfgLevel ELSE "info")
  /\ \A r \in Requests :
       /\ \A i \in DOMAIN logs[r] :
            LevelNum(logs[r][i].level) >= LevelNum(parseLevel(cfgLevel))
       /\ Recovered(r) => (PanicEventWritten(r) <=> cfgLevel # "fatal")
       /\ (pc[r] = "done" /\ ~Panicked(r)) =>
            (CompletionEventWritten(r) <=> cfgLevel \in {"debug", "info"} \cup (LevelNames \ KnownLevels))
C29_Witness ==
  \E r, q \in Requests :
    /\ cfgLevel \notin KnownLevels
    /\ Recovered(r) /\ PanicEventWritten(r)
    /\ pc[q] = "done" /\ CompletionEventWritten(q)

\* The status the client of request r gets: the one sent, or the 200 the
\* transport sends when the handler returns without having written.
StatusSent(r) == IF resp[r].wroteHeader THEN resp[r].status ELSE StatusOK

\* C27: the status responseWriter records, used for the "status" field of the
\* completion event and the status label of RequestsTotal, is the status sent
\* to the client, for every sequence of WriteHeader / Write calls of the
\* handler.
C27_RecordedStatusIsSent ==
  \A r \in Requests :
    (~Panicked(r) /\ pc[r] \in {"metricspost", "metricsdefer", "logpost",
                                 "recoverydefer", "otelexit", "done"}) =>
      /\ mStatus[r] = StatusSent(r)
      /\ tlStatus[r] = StatusSent(r)
      /\ \A i \in EventsOf(r, "HTTP request completed") :
           logs[r][i].fields.status = StatusSent(r)
      /\ pc[r] # "metricspost" =>
           <<inbound[r].method, inbound[r].path, FormatStatus(StatusSent(r))>>
             \in DOMAIN requestsTotal

Took(r, step) == \E i \in DOMAIN life[r] : life[r][i] = step
SampleIDs == {Empty, Req42, InTrace, InSpan}

\* C26: deriving a child context changes the overridden identifier only:
\* WithSpanID keeps the request id and the trace id, WithTraceID keeps the
\* request id and the span id; so the context TracedLogging ends with has the
\* request id and trace id the resolver gave it, with the span id overridden.
C26_ChildContextFrame ==
  \A r \in Requests :
    Took(r, "ids resolved") =>
      \E resolved \in {ExtractTraceContext(NoCtx, inbound[r].XRequestID,
                                           TracedTraceID(span[r], inbound[r]), r)} :
        /\ GetRequestID(lctx[r]) = GetRequestID(resolved)
        /\ GetTraceID(lctx[r]) = GetTraceID(resolved)
        /\ tracingEnabled => GetSpanID(lctx[r]) = OTelSpanID(r)
        /\ \A id \in SampleIDs :
             /\ GetRequestID(WithSpanID(lctx[r], id)) = GetRequestID(lctx[r])
             /\ GetTraceID(WithSpanID(lctx[r], id)) = GetTraceID(lctx[r])
             /\ GetSpanID(WithSpanID(lctx[r], id)) = id
             /\ GetRequestID(WithTraceID(lctx[r], id)) = GetRequestID(lctx[r])
             /\ GetSpanID(WithTraceID(lctx[r], id)) = GetSpanID(lctx[r])
             /\ GetTraceID(WithTraceID(lctx[r], id)) = id
C26_Witness ==
  \E r \in Requests :
    /\ tracingEnabled
    /\ Took(r, "ids resolved")
    /\ GetRequestID(lctx[r]) = Req42
    /\ GetTraceID(lctx[r]) = OTelTraceID(r)
    /\ GetSpanID(lctx[r]) = OTelSpanID(r)

Called(op, name) == {i \in DOMAIN handler.calls : handler.calls[i] = <<op, name>>}

\* C21: when a handler has left, by returning or by a panic of a call made
\* while a span was open, every span it started has been ended.
C21_SpansEndedOnExit ==
  (Sdk /\ handler.at = "left") =>
    \A name \in DOMAIN handler.spans :
      Called("End", name) # {} /\ handler.spans[name].ended

\* C28: when GetRandomQuote failed in quoteHandler, the error was recorded on
\* the fetch_quote span before the span was ended, and no RecordError on that
\* span follows its End.
C28_ErrorRecordedBeforeEnd ==
  (/\ Sdk
   /\ handler.route = "/api/quote"
   /\ handler.at = "left"
   /\ handler.status = StatusInternalServerError) =>
    /\ \E i \in Called("RecordError", "fetch_quote") :
         \A j \in Called("End", "fetch_quote") : i < j
    /\ \A i \in Called("RecordError", "fetch_quote") :
         \A j \in Called("End", "fetch_quote") : i < j

\* The status label of a class of codes: its hundreds digit alone.
StatusClass(code) == <<code \div 100>>
StatusClasses == {StatusClass(code) : code \in {StatusOK, StatusInternalServerError}}

\* C22: the path label of RequestsTotal and RequestDuration is a route of the
\* router, never the raw URL path, and the status label of RequestsTotal is a
\* status-code class.
C22_LabelsBounded ==
  /\ \A lv \in DOMAIN requestsTotal : lv[2] \in Routes /\ Len(lv[3]) = 1
                                      /\ lv[3] \in StatusClasses
  /\ \A lv \in DOMAIN requestDuration : lv[2] \in Routes

\* C23: with tracing disabled InitTracer gives a Provider and no error, every
\* span a handler starts is the inert one whatever was called on it, it has
\* no trace id and no span id, and Provider.Shutdown returns nil.
C23_DisabledTracingInert ==
  ~tracingEnabled =>
    /\ \A setup \in {"nil", "exporter failed"} :
         InitTracer(tracingEnabled, setup) = [provider |-> "noop", err |-> "nil"]
    /\ proc.phase \notin {"init", "tracer"} =>
         /\ proc.provider = "noop"
         /\ proc.deferred # << >> \/ proc.ran # << >>
    /\ \A name \in DOMAIN handler.spans :
         /\ handler.spans[name] = InertSpan
         /\ TracingGetTraceID(handler.spans[name]) = Empty
         /\ TracingGetSpanID(handler.spans[name]) = Empty
    /\ \A i \in DOMAIN proc.ran :
         proc.ran[i][1] = "tracerProvider.Shutdown" => proc.ran[i][2] = "nil"
C23_Witness ==
  /\ ~tracingEnabled
  /\ proc.phase = "exited"
  /\ \E i \in DOMAIN proc.ran : proc.ran[i] = <<"tracerProvider.Shutdown", "nil">>
  /\ \E lv \in DOMAIN requestsTotal : lv[3] = FormatStatus(StatusInternalServerError)

\* C25: the registry holds each series name once; NewMetrics for a namespace
\* whose series are registered panics and adds nothing; and a registration
\* panic ends the process while it is being constructed, before any request.
C25_OneInstancePerSeries ==
  /\ \A i, j \in DOMAIN proc.registry :
       proc.registry[i] = proc.registry[j] => i = j
  /\ proc.phase # "init" =>
       /\ \A i \in DOMAIN InitSeries : Registered(proc.registry, InitSeries[i])
       /\ \A namespace \in Namespaces :
            Registered(proc.registry, FQName(namespace, "http_requests_total")) =>
              /\ \A i \in 1..4 :
                   Registered(proc.registry, NewMetricsSeries(namespace)[i])
              /\ RegisterAll(proc.registry, NewMetricsSeries(namespace))
                   = [panicked |-> TRUE, registry |-> proc.registry]
  /\ proc.exit = "panic" => proc.served = 0 /\ ~proc.signalled /\ handler = NoHandler
C25_Witness ==
  /\ proc.exit = "panic"
  /\ Len(proc.registry) = Len(InitSeries) + 4
  /\ Registered(proc.registry, "goapi_http_requests_total")

\* C30: once the process has exited after a signal, the shutdown waited no
\* longer than 30 seconds, tracerProvider.Shutdown has run, and a connected
\* db has been closed.
C30_CleanupBeforeExit ==
  (proc.phase = "exited" /\ proc.signalled) =>
    /\ proc.waited <= ShutdownTimeout
    /\ \E i \in DOMAIN proc.ran : proc.ran[i][1] = "tracerProvider.Shutdown"
    /\ proc.db # "open"

====
